---- MODULE Spec2Model ----
(***************************************************************************)
(* Model of bhnn/fever-nli: the input-function factories and the NLI       *)
(* loader of input_da.py, and the batch-job loop of main.py.               *)
(*                                                                         *)
(* Four specifications share the module:                                   *)
(*   SpecInput  the factories get_input_fn, get_input_fn_nli and           *)
(*              get_input_fn_fever and the closures they return;           *)
(*   SpecNli    get_claim_evidence_pairs and load_nli applied to a parsed  *)
(*              JSON document;                                             *)
(*   Spec       the function main, one action    per statement of the loop;     *)
(*   SpecCkpt   the checkpoint schedule that main's RunConfig asks for.    *)
(***************************************************************************)
EXTENDS Integers, Sequences, FiniteSets, TLC

VARIABLES
    \* ---- input_da.py, factories ----
    factory,        \* which factory is exercised
    fn1, fn2,       \* results of two calls of that factory (Unset before)
    out1, out2,     \* outcome of calling fn1 / fn2 (Unset before)
    cm1, cm2,       \* the mode each closure was called with
    \* ---- input_da.py, NLI loader ----
    data,           \* the parsed JSON document (what json.load returns)
    concat_evidence,\* the keyword argument of get_claim_evidence_pairs
    pairs_result,   \* outcome of get_claim_evidence_pairs(data, ...)
    nli_result,     \* outcome of exhausting the generator load_nli(file)
    \* ---- main.py, main ----
    hparams,        \* the keyword arguments of main
    pc,             \* the statement main is at
    i,              \* the loop variable of `for i in range(repeats)`
    classifier,     \* the estimator built in this iteration (its RunConfig)
    selected_input_fn, \* main's local name get_input_fn
    log,            \* the framework calls main has made, in order
    error,          \* the exception a call raised and the step it left (NoError)
    \* ---- one training run under main's RunConfig ----
    ck_pc,          \* "begin", "run", "finished"
    max_steps,      \* TrainSpec.max_steps = hparams['train_steps']
    global_step,    \* training steps done
    last_saved,     \* the step of the latest checkpoint (-1: none)
    kept,           \* the checkpoints on disk, oldest first
    generated,      \* checkpoints written in this run
    evicted         \* checkpoints deleted because of keep_checkpoint_max

inputVars == <<factory, fn1, fn2, out1, out2, cm1, cm2>>

nliVars == <<data, concat_evidence, pairs_result, nli_result>>

mainVars == <<hparams, pc, i, classifier, selected_input_fn, log, error>>

ckptVars == <<ck_pc, max_steps, global_step, last_saved, kept, generated, evicted>>

vars == <<inputVars, nliVars, mainVars, ckptVars>>

(***************************************************************************)
(* input_da.py: input-function factories                                   *)
(***************************************************************************)

\* Mode strings: the three ModeKeys values, Python's default None, and an
\* unrecognised string.
Modes == {"train", "eval", "predict", "bogus", "None"}

ValidModes == {"train", "eval", "predict"}

Factories == {"get_input_fn", "get_input_fn_nli", "get_input_fn_fever"}

\* A factory only defines the nested function and returns it.  The result of
\* the call is the exception it raised (none) and the closure, represented by
\* the factory's name and the value of the enclosing `mode`.
get_input_fn(mode) ==
    [raised |-> "none", factory |-> "get_input_fn", outer_mode |-> mode]

get_input_fn_nli(mode) ==
    [raised |-> "none", factory |-> "get_input_fn_nli", outer_mode |-> mode]

get_input_fn_fever(mode) ==
    [raised |-> "none", factory |-> "get_input_fn_fever", outer_mode |-> mode]

\* The nested _input_fn of get_input_fn.  Its own parameter `mode` shadows the
\* factory's; the result is the dataset binding or the raised exception.
input_fn_plain_no_predict(outer_mode, mode) ==
    IF mode = "train" THEN [raised |-> "none", ds |-> "None"]
    ELSE IF mode = "eval" THEN [raised |-> "none", ds |-> "None"]
    ELSE [raised |-> "ValueError", ds |-> "unbound"]

input_fn_plain(outer_mode, mode) ==
    IF mode = "train" THEN [raised |-> "none", ds |-> "None"]
    ELSE IF mode = "eval" \/ mode = "predict" THEN [raised |-> "none", ds |-> "None"]
    ELSE [raised |-> "ValueError", ds |-> "unbound"]

\* The nested _input_fn of get_input_fn_nli, up to the binding of ds_gen.
input_fn_nli_outer(outer_mode, mode) ==
    IF outer_mode = "train" THEN [raised |-> "none", ds |-> "example_train."]
    ELSE IF outer_mode = "eval" \/ outer_mode = "predict"
         THEN [raised |-> "none", ds |-> "example_dev.csv"]
    ELSE [raised |-> "ValueError", ds |-> "unbound"]

input_fn_nli(outer_mode, mode) ==
    IF mode = "train" THEN [raised |-> "none", ds |-> "example_train."]
    ELSE IF mode = "eval" \/ mode = "predict"
         THEN [raised |-> "none", ds |-> "example_dev.csv"]
    ELSE [raised |-> "ValueError", ds |-> "unbound"]

\* The nested _input_fn of get_input_fn_fever, up to the binding of ds_gen.
input_fn_fever(outer_mode, mode) ==
    IF mode = "train" THEN [raised |-> "none", ds |-> "example_train.csv"]
    ELSE IF mode = "eval" \/ mode = "predict"
         THEN [raised |-> "none", ds |-> "example_dev.csv"]
    ELSE [raised |-> "ValueError", ds |-> "unbound"]

\* Calling a factory by name.
CallFactory(f, mode) ==
    CASE f = "get_input_fn"       -> get_input_fn(mode)
      [] f = "get_input_fn_nli"   -> get_input_fn_nli(mode)
      [] f = "get_input_fn_fever" -> get_input_fn_fever(mode)

\* Calling a returned closure with the call-time mode.
CallInputFn(fn, mode) ==
    CASE fn.factory = "get_input_fn"       -> input_fn_plain(fn.outer_mode, mode)
      [] fn.factory = "get_input_fn_nli"   -> input_fn_nli(fn.outer_mode, mode)
      [] fn.factory = "get_input_fn_fever" -> input_fn_fever(fn.outer_mode, mode)

Unset == [unset |-> TRUE]

NoError == [exc |-> "none", step |-> "none", iter |-> 0]

InputIdle ==
    /\ factory = "get_input_fn"
    /\ fn1 = Unset /\ fn2 = Unset
    /\ out1 = Unset /\ out2 = Unset
    /\ cm1 = "unset" /\ cm2 = "unset"

NliIdle ==
    /\ data = Unset
    /\ concat_evidence = TRUE
    /\ pairs_result = Unset
    /\ nli_result = Unset

MainIdle ==
    /\ hparams = Unset
    /\ pc = "idle"
    /\ i = 0
    /\ classifier = Unset
    /\ selected_input_fn = "unbound"
    /\ log = <<>>
    /\ error = NoError

CkptIdle ==
    /\ ck_pc = "idle"
    /\ max_steps = 0
    /\ global_step = 0
    /\ last_saved = -1
    /\ kept = <<>>
    /\ generated = 0
    /\ evicted = 0

InitInput ==
    /\ NliIdle
    /\ MainIdle
    /\ CkptIdle
    /\ factory \in Factories
    /\ fn1 = Unset /\ fn2 = Unset
    /\ out1 = Unset /\ out2 = Unset
    /\ cm1 = "unset" /\ cm2 = "unset"

\* fn1 = factory(mode=m)
MakeFn1 ==
    /\ fn1 = Unset
    /\ \E m \in Modes : fn1' = CallFactory(factory, m)
    /\ UNCHANGED <<factory, fn2, out1, out2, cm1, cm2>>
    /\ UNCHANGED <<nliVars, mainVars, ckptVars>>

\* fn2 = factory(mode=m)
MakeFn2 ==
    /\ fn2 = Unset
    /\ \E m \in Modes : fn2' = CallFactory(factory, m)
    /\ UNCHANGED <<factory, fn1, out1, out2, cm1, cm2>>
    /\ UNCHANGED <<nliVars, mainVars, ckptVars>>

\* fn1(mode=m)
CallFn1 ==
    /\ fn1 # Unset /\ fn1.raised = "none" /\ out1 = Unset
    /\ \E m \in Modes : /\ out1' = CallInputFn(fn1, m)
                        /\ cm1' = m
    /\ UNCHANGED <<factory, fn1, fn2, out2, cm2>>
    /\ UNCHANGED <<nliVars, mainVars, ckptVars>>

\* fn2(mode=m)
CallFn2 ==
    /\ fn2 # Unset /\ fn2.raised = "none" /\ out2 = Unset
    /\ \E m \in Modes : /\ out2' = CallInputFn(fn2, m)
                        /\ cm2' = m
    /\ UNCHANGED <<factory, fn1, fn2, out1, cm1>>
    /\ UNCHANGED <<nliVars, mainVars, ckptVars>>

NextInput == MakeFn1 \/ MakeFn2 \/ CallFn1 \/ CallFn2

SpecInput == InitInput /\ [][NextInput]_vars

(***************************************************************************)
(* input_da.py: get_claim_evidence_pairs and load_nli                      *)
(***************************************************************************)

MaxClaims == 2      \* claim objects in the JSON array

MaxEvidence == 2    \* evidence strings of one claim object

MaxLabel == 1       \* labels are 0..MaxLabel

\* Strings are sequences of characters, so that += is \o.
ClaimTexts == {<<"c">>, <<"d">>}

EvidenceTexts == {<<"a">>, <<"b">>}

Labels == 0..MaxLabel

SeqsUpTo(S, n) == UNION {[1..k -> S] : k \in 0..n}

ClaimObjects ==
    [claim : ClaimTexts, evidence : SeqsUpTo(EvidenceTexts, MaxEvidence), label : Labels]

ObjectKeys == {"claim", "evidence", "label"}

\* What json.load can hand over: a JSON array of claim objects, or a JSON
\* object (a Python dict, which iterates over its keys).
Documents ==
    [kind : {"array"}, items : SeqsUpTo(ClaimObjects, MaxClaims), keys : {<<>>}]
    \cup
    [kind : {"object"}, items : {<<>>},
     keys : {k \in SeqsUpTo(ObjectKeys, 3) : \A ix, jx \in 1..Len(k) : ix # jx => k[ix] # k[jx]}]

\* dict[key] for a string key: a list rejects it, a dict needs the key.
Subscript(doc, key) ==
    IF doc.kind = "array" THEN "TypeError"
    ELSE IF \E ix \in 1..Len(doc.keys) : doc.keys[ix] = key THEN "none"
    ELSE "KeyError"

\* The inner loop: concat = ""; for evidence in claim_set["evidence"]: concat += evidence
RECURSIVE ConcatEvidence(_)
ConcatEvidence(evs) ==
    IF evs = <<>> THEN <<>>
    ELSE ConcatEvidence(SubSeq(evs, 1, Len(evs) - 1)) \o evs[Len(evs)]

PairsEmpty ==
    [raised |-> "none", claim_list |-> <<>>, evidence_list |-> <<>>,
     document_list |-> <<>>,
     label_list |-> [is_list |-> TRUE, items |-> <<>>, scalar |-> 0]]

\* One pass of `for claim_set in dict` over a list of claim objects.
RECURSIVE PairsLoop(_, _, _, _)
PairsLoop(items, k, concat_ev, acc) ==
    IF k > Len(items) THEN acc
    ELSE LET claim_set == items[k]
             concat    == ConcatEvidence(claim_set.evidence)
         IN  PairsLoop(items, k + 1, concat_ev,
               [raised        |-> "none",
                evidence_list |-> Append(acc.evidence_list,
                                         IF concat_ev THEN concat ELSE claim_set.evidence),
                claim_list    |-> Append(acc.claim_list, claim_set.claim),
                document_list |-> Append(acc.document_list, concat \o claim_set.claim),
                \* label_list = claim_set["label"]: rebinds the name
                label_list    |-> [is_list |-> FALSE, items |-> <<>>,
                                   scalar |-> claim_set.label]])

Raised(exc) == [PairsEmpty EXCEPT !.raised = exc]

get_claim_evidence_pairs(doc, concat_ev) ==
    \* print(... dict["claim"] ... dict["evidence"])
    IF Subscript(doc, "claim") # "none" THEN Raised(Subscript(doc, "claim"))
    ELSE IF Subscript(doc, "evidence") # "none" THEN Raised(Subscript(doc, "evidence"))
    ELSE IF doc.kind = "array" THEN PairsLoop(doc.items, 1, concat_ev, PairsEmpty)
    \* a dict iterates over its keys: claim_set is a str, claim_set["evidence"] fails
    ELSE Raised("TypeError")

\* TFVec(...).fit(documents).transform(texts): one row per text.
Transform(name, texts) == [ix \in 1..Len(texts) |-> <<name, texts[ix]>>]

\* cosine_similarity(X, Y): the Len(X)-by-Len(Y) matrix of all pairs.
cosine_similarity(X, Y) ==
    [ix \in 1..Len(X) |-> [jx \in 1..Len(Y) |-> <<"cos", X[ix][2], Y[jx][2]>>]]

Min(a, b) == IF a < b THEN a ELSE b

\* The generator load_nli run to exhaustion on a file that holds `doc`.
load_nli(doc) ==
    LET r == get_claim_evidence_pairs(doc, TRUE)
    IN  IF r.raised # "none" THEN [raised |-> r.raised, yielded |-> <<>>]
        ELSE
        LET tf_claims    == Transform("tf", r.claim_list)
            tf_evidences == Transform("tf", r.evidence_list)
            tfidf_sims   == cosine_similarity(Transform("tfidf", r.claim_list),
                                              Transform("tfidf", r.evidence_list))
        IN  \* zip(tf_claims, tf_evidences, tfidf_sims, labels)
            IF ~r.label_list.is_list THEN [raised |-> "TypeError", yielded |-> <<>>]
            ELSE [raised  |-> "none",
                  yielded |-> [ix \in 1..Min(Len(tf_claims), Len(r.label_list.items)) |->
                                 [claim    |-> tf_claims[ix],
                                  sim      |-> tfidf_sims[ix],
                                  evidence |-> tf_evidences[ix],
                                  label    |-> r.label_list.items[ix]]]]

InitNli ==
    /\ InputIdle
    /\ MainIdle
    /\ CkptIdle
    /\ data \in Documents
    /\ concat_evidence \in BOOLEAN
    /\ pairs_result = Unset
    /\ nli_result = Unset

\* get_claim_evidence_pairs(data, concat_evidence=...)
GetClaimEvidencePairs ==
    /\ pairs_result = Unset
    /\ pairs_result' = get_claim_evidence_pairs(data, concat_evidence)
    /\ UNCHANGED <<data, concat_evidence, nli_result>>
    /\ UNCHANGED <<inputVars, mainVars, ckptVars>>

\* list(load_nli(file))
LoadNli ==
    /\ nli_result = Unset
    /\ nli_result' = load_nli(data)
    /\ UNCHANGED <<data, concat_evidence, pairs_result>>
    /\ UNCHANGED <<inputVars, mainVars, ckptVars>>

NextNli == GetClaimEvidencePairs \/ LoadNli

SpecNli == InitNli /\ [][NextNli]_vars

(***************************************************************************)
(* main.py: the batch-job loop of main                                     *)
(*                                                                         *)
(* main is modelled as a function whose global names are bound (main.py   *)
(* imports get_input_fn_da from input_da, which defines no such name, and  *)
(* get_input_fn_fnc from a module that is absent; both appear here by      *)
(* name only).  The calls into the estimator framework (Estimator,         *)
(* train_and_evaluate, evaluate) either return or raise; main has no try   *)
(* statement.                                                              *)
(***************************************************************************)

MaxRepeats == 2     \* hparams['repeats'] ranges over 0..MaxRepeats

MaxModelType == 3   \* hparams['model_type'] ranges over 1..MaxModelType

MaxJobId == 2       \* hparams['job_id'] ranges over 1..MaxJobId

SaveCheckpointsSteps == 500

TrainStepChoices == {0, 100, SaveCheckpointsSteps, 2 * SaveCheckpointsSteps}

HParams ==
    [repeats : 0..MaxRepeats, model_type : 1..MaxModelType, job_id : 1..MaxJobId,
     output_dir : {"out"}, train_steps : TrainStepChoices]

\* _model_fn: the constructor chosen for params.model_type
model_fn(model_type) ==
    IF model_type = 1 THEN "SimpleBaselineModel" ELSE "DecomposibleAttentionModel"

\* model_dir = join(output_dir, '{}-{}'.format(job_id, i+1))
model_dir_from_zero(h, idx) == [output_dir |-> h.output_dir, name |-> <<h.job_id, idx>>]

model_dir(h, idx) == [output_dir |-> h.output_dir, name |-> <<h.job_id, idx + 1>>]

\* keep_checkpoint_max = int(train_steps/500)+1
keep_checkpoint_max(train_steps) == (train_steps \div 500) + 1

\* tf.estimator.RunConfig(...) as built in iteration idx
RunConfig(h, idx) ==
    [model_dir             |-> model_dir(h, idx),
     save_checkpoints_steps |-> SaveCheckpointsSteps,
     keep_checkpoint_max   |-> keep_checkpoint_max(h.train_steps)]

\* the if/elif that binds the local name get_input_fn
select_input_fn(model_type, current) ==
    IF model_type = 1 THEN "get_input_fn_fnc"
    ELSE IF model_type = 2 THEN "get_input_fn_da"
    ELSE current

NoDir == [output_dir |-> "", name |-> <<0, 0>>]

LogEntry(step, iter, dir, model, input_fn) ==
    [step |-> step, iter |-> iter, model_dir |-> dir, model |-> model, input_fn |-> input_fn]

Init ==
    /\ InputIdle
    /\ NliIdle
    /\ CkptIdle
    /\ hparams \in HParams
    /\ pc = "for"
    /\ i = 0
    /\ classifier = Unset
    /\ selected_input_fn = "unbound"
    /\ log = <<>>
    /\ error = NoError

\* a handler that swallows the exception and goes on to the next iteration
Swallow(exc) ==
    /\ pc' = "for"
    /\ error' = [exc |-> exc, step |-> pc, iter |-> i + 1]
    /\ i' = i + 1

\* what a step does when the call it makes raises: the exception leaves main
Propagate(exc) ==
    /\ pc' = "raised"
    /\ error' = [exc |-> exc, step |-> pc, iter |-> i + 1]
    /\ UNCHANGED i

\* for i in range(hparams['repeats']):
ForLoop ==
    /\ pc = "for"
    /\ pc' = IF i < hparams.repeats THEN "build" ELSE "done"
    /\ UNCHANGED <<hparams, i, classifier, selected_input_fn, log, error>>
    /\ UNCHANGED <<inputVars, nliVars, ckptVars>>

\* config = RunConfig(...); classifier = build_estimator(config, HParams(**hparams))
BuildEstimator ==
    /\ pc = "build"
    /\ log' = Append(log, LogEntry("build", i + 1, model_dir(hparams, i), "none", "none"))
    /\ \E returns \in BOOLEAN :
         IF returns
         THEN /\ classifier' = RunConfig(hparams, i)
              /\ pc' = "select"
              /\ UNCHANGED <<i, error>>
         ELSE /\ Propagate("FrameworkError")
              /\ UNCHANGED classifier
    /\ UNCHANGED <<hparams, selected_input_fn>>
    /\ UNCHANGED <<inputVars, nliVars, ckptVars>>

\* if model_type == 1: get_input_fn = get_input_fn_fnc  elif model_type == 2: ...
SelectInputFn ==
    /\ pc = "select"
    /\ selected_input_fn' = select_input_fn(hparams.model_type, selected_input_fn)
    /\ pc' = "train"
    /\ UNCHANGED <<hparams, i, classifier, log, error>>
    /\ UNCHANGED <<inputVars, nliVars, ckptVars>>

\* tf.estimator.train_and_evaluate(classifier, TrainSpec(get_input_fn(...)), EvalSpec(...))
TrainAndEvaluate ==
    /\ pc = "train"
    /\ IF selected_input_fn = "unbound"
       THEN \* evaluating the argument get_input_fn(mode=...) fails first
            /\ Propagate("UnboundLocalError")
            /\ UNCHANGED log
       ELSE /\ log' = Append(log, LogEntry("train", i + 1, NoDir,
                                           model_fn(hparams.model_type), selected_input_fn))
            /\ \E returns \in BOOLEAN :
                 IF returns
                 THEN /\ pc' = "test"
                      /\ UNCHANGED <<i, error>>
                 ELSE Propagate("FrameworkError")
    /\ UNCHANGED <<hparams, classifier, selected_input_fn>>
    /\ UNCHANGED <<inputVars, nliVars, ckptVars>>

\* classifier.evaluate(input_fn=get_input_fn(mode='predict'), name='test')
EvaluateTest ==
    /\ pc = "test"
    /\ log' = Append(log, LogEntry("test", i + 1, NoDir,
                                   model_fn(hparams.model_type), selected_input_fn))
    /\ \E returns \in BOOLEAN :
         IF returns
         THEN /\ pc' = "for"
              /\ i' = i + 1
              /\ UNCHANGED error
         ELSE Propagate("FrameworkError")
    /\ UNCHANGED <<hparams, classifier, selected_input_fn>>
    /\ UNCHANGED <<inputVars, nliVars, ckptVars>>

Next == ForLoop \/ BuildEstimator \/ SelectInputFn \/ TrainAndEvaluate \/ EvaluateTest

Spec == Init /\ [][Next]_vars

(***************************************************************************)
(* The checkpoints of one training run under main's RunConfig:             *)
(* save_checkpoints_steps = 500 and keep_checkpoint_max as main computes   *)
(* it.  A checkpoint is written when training starts, whenever 500 steps   *)
(* have passed since the last one, and at the final step unless that step  *)
(* was just saved; the saver keeps the newest keep_checkpoint_max files.   *)
(***************************************************************************)

MaxTrainSteps == 1001   \* hparams['train_steps'] ranges over 0..MaxTrainSteps

InitCkpt ==
    /\ InputIdle
    /\ NliIdle
    /\ MainIdle
    /\ ck_pc = "begin"
    /\ max_steps \in 0..MaxTrainSteps
    /\ global_step = 0
    /\ last_saved = -1
    /\ kept = <<>>
    /\ generated = 0
    /\ evicted = 0

\* writing the checkpoint of step `step` under keep_checkpoint_max
SaveCheckpoint(step) ==
    /\ last_saved' = step
    /\ generated' = generated + 1
    /\ IF Len(kept) + 1 > keep_checkpoint_max(max_steps)
       THEN /\ kept' = Tail(Append(kept, step))
            /\ evicted' = evicted + 1
       ELSE /\ kept' = Append(kept, step)
            /\ UNCHANGED evicted

\* the session is created: the first checkpoint is written
CkptBegin ==
    /\ ck_pc = "begin"
    /\ SaveCheckpoint(global_step)
    /\ ck_pc' = "run"
    /\ UNCHANGED <<max_steps, global_step>>
    /\ UNCHANGED <<inputVars, nliVars, mainVars>>

\* one training step; a checkpoint every save_checkpoints_steps steps
TrainStep ==
    /\ ck_pc = "run"
    /\ global_step < max_steps
    /\ global_step' = global_step + 1
    /\ IF global_step + 1 - last_saved >= SaveCheckpointsSteps
       THEN SaveCheckpoint(global_step + 1)
       ELSE UNCHANGED <<last_saved, kept, generated, evicted>>
    /\ UNCHANGED <<ck_pc, max_steps>>
    /\ UNCHANGED <<inputVars, nliVars, mainVars>>

\* max_steps is reached: the final step is saved unless it already was
CkptEnd ==
    /\ ck_pc = "run"
    /\ global_step >= max_steps
    /\ IF last_saved # global_step
       THEN SaveCheckpoint(global_step)
       ELSE UNCHANGED <<last_saved, kept, generated, evicted>>
    /\ ck_pc' = "finished"
    /\ UNCHANGED <<max_steps, global_step>>
    /\ UNCHANGED <<inputVars, nliVars, mainVars>>

NextCkpt == CkptBegin \/ TrainStep \/ CkptEnd

SpecCkpt == InitCkpt /\ [][NextCkpt]_vars

(***************************************************************************)
(* Claims                                                                  *)
(***************************************************************************)

\* ---- under SpecInput ----

FactoryCalls == {c \in {fn1, fn2} : c # Unset}

\* C1 as stated: a factory called with a mode other than 'train', 'eval' or
\* 'predict' raises ValueError, and one called with one of the three does not.
C1_FactoryRaisesOnInvalidMode ==
    \A c \in FactoryCalls : (c.raised = "ValueError") <=> (c.outer_mode \notin ValidModes)

\* C1 amended: no factory call raises, whatever its mode; the returned
\* _input_fn raises ValueError exactly when the mode it is called with is
\* not 'train', 'eval' or 'predict', and raises nothing else at the dispatch.
C1_InputFnRaisesOnInvalidMode ==
    /\ \A c \in FactoryCalls : c.raised = "none"
    /\ out1 # Unset =>
         /\ out1.raised \in {"none", "ValueError"}
         /\ (out1.raised = "ValueError") <=> (cm1 \notin ValidModes)
    /\ out2 # Unset =>
         /\ out2.raised \in {"none", "ValueError"}
         /\ (out2.raised = "ValueError") <=> (cm2 \notin ValidModes)

\* A closure made with a valid factory mode rejects a bad call-time mode, and
\* one made with a bad factory mode accepts 'predict'.
C1_Witness ==
    /\ out1 # Unset /\ out2 # Unset
    /\ fn1.outer_mode = "train" /\ cm1 = "bogus" /\ out1.raised = "ValueError"
    /\ fn2.outer_mode = "bogus" /\ cm2 = "predict" /\ out2.raised = "none"

\* C10: the factory's mode has no influence on the returned function: two
\* closures of one factory, made with any two modes, give the same outcome
\* (same dataset source or same ValueError) when called with the same mode,
\* and 'eval' and 'predict' select the same source.
C10_FactoryModeHasNoInfluence ==
    (out1 # Unset /\ out2 # Unset) =>
        /\ cm1 = cm2 => out1 = out2
        /\ {cm1, cm2} \subseteq {"eval", "predict"} => out1 = out2

\* The closure main builds with mode='predict' and one built with 'train',
\* both called by the estimator with 'train'; and an 'eval'/'predict' pair.
C10_Witness ==
    /\ out1 # Unset /\ out2 # Unset
    /\ factory = "get_input_fn_nli"
    /\ fn1.outer_mode = "predict" /\ fn2.outer_mode = "train"
    /\ cm1 = "train" /\ cm2 = "train"
    /\ out1.ds = "example_train."

\* ---- under SpecNli ----

NumClaims == Len(data.items)

\* C2: for an array of n claim objects get_claim_evidence_pairs returns one
\* label per claim: a label list of length n, as long as the claim list,
\* whose i-th element is the i-th claim object's label.
C2_OneLabelPerClaim ==
    (pairs_result # Unset /\ data.kind = "array") =>
        /\ pairs_result.raised = "none"
        /\ pairs_result.label_list.is_list
        /\ Len(pairs_result.label_list.items) = NumClaims
        /\ Len(pairs_result.claim_list) = NumClaims
        /\ \A k \in 1..NumClaims :
               pairs_result.label_list.items[k] = data.items[k].label

\* C3: for a file holding an array of n claim objects load_nli yields exactly
\* n tuples, in input order, the i-th carrying the i-th claim's vector, the
\* i-th evidence vector and the i-th claim's label.
C3_OneTuplePerClaim ==
    (nli_result # Unset /\ data.kind = "array") =>
        /\ nli_result.raised = "none"
        /\ Len(nli_result.yielded) = NumClaims
        /\ \A k \in 1..NumClaims :
               /\ nli_result.yielded[k].claim = <<"tf", data.items[k].claim>>
               /\ nli_result.yielded[k].evidence =
                      <<"tf", ConcatEvidence(data.items[k].evidence)>>
               /\ nli_result.yielded[k].label = data.items[k].label

\* C5: the similarity component load_nli yields for claim i is the full row
\* of similarities between claim i and each of the n evidence vectors.
C5_SimilarityIsFullRow ==
    (nli_result # Unset /\ data.kind = "array") =>
        \A k \in 1..NumClaims :
            /\ k <= Len(nli_result.yielded)
            /\ Len(nli_result.yielded[k].sim) = NumClaims
            /\ \A m \in 1..NumClaims :
                   nli_result.yielded[k].sim[m] =
                       <<"cos", data.items[k].claim, ConcatEvidence(data.items[m].evidence)>>

\* C6: get_claim_evidence_pairs returns claim, evidence and document lists of
\* equal length in input order; the i-th evidence entry is the concatenation
\* of the i-th claim's evidence strings (the evidence list itself with
\* concat_evidence=False) and the i-th document is that concatenation
\* followed by the claim text.
C6_ListsAlignedAndConcatenated ==
    (pairs_result # Unset /\ data.kind = "array") =>
        /\ pairs_result.raised = "none"
        /\ Len(pairs_result.claim_list) = NumClaims
        /\ Len(pairs_result.evidence_list) = NumClaims
        /\ Len(pairs_result.document_list) = NumClaims
        /\ \A k \in 1..NumClaims :
               /\ pairs_result.claim_list[k] = data.items[k].claim
               /\ pairs_result.evidence_list[k] =
                      (IF concat_evidence THEN ConcatEvidence(data.items[k].evidence)
                                          ELSE data.items[k].evidence)
               /\ pairs_result.document_list[k] =
                      ConcatEvidence(data.items[k].evidence) \o data.items[k].claim

\* ---- under Spec ----

StepOrder(step) == CASE step = "build" -> 1 [] step = "select" -> 2
                     [] step = "train" -> 3 [] step = "test" -> 4

\* the k-th framework call of a run in which nothing raises
ExpectedCall(k) ==
    LET iter == ((k - 1) \div 3) + 1
        step == CASE k % 3 = 1 -> "build" [] k % 3 = 2 -> "train" [] k % 3 = 0 -> "test"
    IN  [step |-> step, iter |-> iter,
         model_dir |-> IF step = "build"
                       THEN [output_dir |-> hparams.output_dir,
                             name |-> <<hparams.job_id, iter>>]
                       ELSE NoDir]

CallOf(e) == [step |-> e.step, iter |-> e.iter, model_dir |-> e.model_dir]

\* C4: main runs hparams['repeats'] iterations in the order i = 1..repeats,
\* each one building the estimator with model_dir <output_dir>/<job_id>-<i>,
\* then train_and_evaluate, then the 'test' evaluation; an iteration starts
\* only when the previous 'test' evaluation has finished; a run that reaches
\* the end of main has made exactly repeats iterations, and with repeats = 0
\* nothing is built or trained.
C4_IterationsInOrder ==
    /\ Len(log) <= 3 * hparams.repeats
    /\ \A k \in 1..Len(log) : CallOf(log[k]) = ExpectedCall(k)
    /\ pc = "build" => Len(log) = 3 * i
    /\ pc = "done" => (i = hparams.repeats /\ Len(log) = 3 * hparams.repeats)
    /\ hparams.repeats = 0 => (log = <<>> /\ classifier = Unset)

\* A run of MaxRepeats iterations reached the end of main.
C4_Witness ==
    /\ pc = "done"
    /\ hparams.repeats = MaxRepeats
    /\ Len(log) = 3 * MaxRepeats
    /\ log[Len(log)].iter = MaxRepeats

\* C7: main has no retry or recovery: when a step of iteration i raises, the
\* error leaves main, no later step of iteration i runs, no step is attempted
\* twice and no later iteration starts.
C7_NoRetryNoRecovery ==
    /\ [](error.exc # "none" =>
            /\ pc = "raised"
            /\ \A k \in 1..Len(log) :
                   /\ log[k].iter <= error.iter
                   /\ log[k].iter = error.iter =>
                          StepOrder(log[k].step) <= StepOrder(error.step)
            /\ \A k, m \in 1..Len(log) :
                   (log[k].step = log[m].step /\ log[k].iter = log[m].iter) => k = m)
    /\ [][pc = "raised" => UNCHANGED <<pc, i, log, error, classifier>>]_vars

\* train_and_evaluate raised in the first of several iterations.
C7_Witness ==
    /\ pc = "raised"
    /\ error.exc = "FrameworkError" /\ error.step = "train" /\ error.iter = 1
    /\ hparams.repeats > 1
    /\ Len(log) = 2

PairedInputFn(model) ==
    IF model = "SimpleBaselineModel" THEN "get_input_fn_fnc" ELSE "get_input_fn_da"

C8_KeepMaxEqualsGenerated ==
    ck_pc = "finished" =>
        /\ generated = keep_checkpoint_max(max_steps)
        /\ evicted = 0

====
